---- MODULE Spec2Model ----
(***************************************************************************)
(* StyleMy.Hair: the client-side image acquisition and style-transform     *)
(* pipeline (App, ImageUploader, CameraCapture, PresetStyles,              *)
(* StyledPreview, geminiService).  React state is modelled as records;     *)
(* every handler is one action, and every await splits a handler into the  *)
(* synchronous prefix and the continuation run when the promise settles.   *)
(* Spec is the session: acquisition, camera, transforms and discard.       *)
(* PreviewSpec adds download and share to the session from its first       *)
(* source to its discard; SliderSpec is BeforeAfterSlider while a result   *)
(* is shown; CaptureSpec is the bitmap drawn by CameraCapture.handleCapture.*)
(* CodecSpec is one call of fileToBase64 on a file of any type and content. *)
(***************************************************************************)
EXTENDS Integers, FiniteSets, Sequences, Bags, TLC

\* ------------------------------------------------------------- bounds
MaxFiles == 2        \* files handed to handleImageUpload over a run
MaxStyles == 1       \* entries of the style catalog that are exercised
MaxPayloads == 1     \* distinct image payloads the capability may return
MaxInFlight == 2     \* applyHairstyle calls outstanding at once
MaxOpens == 2        \* times the capture view is mounted over a run
MaxBlobs == 2        \* canvas.toBlob callbacks outstanding at once
MaxSharing == 1      \* handleShare calls suspended at once
MaxLeft == 2         \* largest left offset of the slider's bounding box
MaxWidth == 4        \* largest width of the slider's bounding box
MaxVideoWidth == 3   \* largest videoWidth of a captured frame
MaxVideoHeight == 2  \* largest videoHeight of a captured frame
MaxTypeLen == 2      \* longest media type of a file, in tokens
MaxDataLen == 2      \* longest base64 payload of a file, in tokens

\* ------------------------------------------------------------- values
Null == 0
NoError == "null"
LoadFailed == "Failed to load image. Please try again."
UploadFirst == "Please upload an image first."
ServiceMessage == "Failed to generate hairstyle. The AI service may be unavailable or the request was blocked."
NoImageMessage == "AI did not return an image."
GenerationFailed(message) == "AI generation failed: " \o message \o ". Please try again."
CameraNotSupported == "Camera not supported on this browser."
CameraDenied == "Could not access camera. Please check your browser permissions."

Files == 1..MaxFiles
Styles == 1..MaxStyles
Payloads == 1..MaxPayloads
StreamIds == 1..MaxOpens

VARIABLES
  app,          \* App's useState fields
  nextFile,     \* number of File objects handed to handleImageUpload so far
  fileReads,    \* files whose fileToBase64 promise is pending
  transforms,   \* bag of pending applyHairstyle calls, each with its closure
  showCamera,   \* ImageUploader's showCamera state
  camera,       \* the mounted CameraCapture instance: id, stream, error
  opens,        \* number of CameraCapture instances mounted so far
  gumPending,   \* instances whose getUserMedia promise is pending
  liveTracks,   \* MediaStreams granted whose tracks have not been stopped
  blobs,        \* pending canvas.toBlob callbacks, counted by what became of their capture view
  objectUrls,   \* object URLs made by URL.createObjectURL and not revoked
  canShare,     \* whether navigator.share exists on this platform
  saved,        \* file saves triggered by the download anchor
  alert,        \* the message of the window.alert box that is open
  sharing,      \* handleShare calls suspended at an await
  shared,       \* arguments of the navigator.share calls made
  sliderPos,    \* BeforeAfterSlider's sliderPos state, a rational
  isDragging,   \* BeforeAfterSlider's isDragging ref
  pressed,      \* whether the pointer (button or finger) is down
  rect,         \* bounding box of the slider's container
  frame,        \* the frame the video element of CameraCapture shows
  canvas,       \* the canvas CameraCapture.handleCapture drew last
  reading,      \* the file a FileReader of fileToBase64 is reading
  encoded       \* how the promise of that fileToBase64 call settled

appVars == <<app, nextFile, fileReads, transforms, objectUrls>>
camVars == <<showCamera, camera, opens, gumPending, liveTracks, blobs>>
previewVars == <<canShare, saved, alert, sharing, shared>>
sliderVars == <<sliderPos, isDragging, pressed, rect>>
captureVars == <<frame, canvas>>
codecVars == <<reading, encoded>>
viewVars == <<previewVars, sliderVars, captureVars, codecVars>>

vars == <<appVars, camVars, viewVars>>

\* ------------------------------------------------------------- App.tsx
InitialApp ==
  [originalImage |-> Null, styledImage |-> Null, isLoading |-> FALSE,
   error |-> NoError, selectedStyle |-> Null]

\* URL.createObjectURL(file): a new entry of the document's blob URL store.
\* Entries leave the store only through URL.revokeObjectURL, which the
\* application never calls.
createObjectURL(urls, file) == urls \cup {file}

\* handleImageUpload up to its await
handleImageUploadStart(a) ==
  [a EXCEPT !.isLoading = TRUE, !.error = NoError,
            !.styledImage = Null, !.selectedStyle = Null]

\* handleImageUpload after fileToBase64 resolved: try body, then finally
handleImageUploadResolve(a, file) ==
  [a EXCEPT !.originalImage = file, !.isLoading = FALSE]

\* handleImageUpload after fileToBase64 rejected: catch, then finally
handleImageUploadReject(a) ==
  [a EXCEPT !.error = LoadFailed, !.isLoading = FALSE]

\* handleStyleSelect without its `if (!originalImage)` guard
handleStyleSelectStart_Unguarded(a, style) ==
  [a EXCEPT !.isLoading = TRUE, !.error = NoError,
            !.styledImage = Null, !.selectedStyle = style]

\* handleStyleSelect that keeps the previous result while the call is pending
handleStyleSelectStart_KeepsResult(a, style) ==
  IF a.originalImage = Null
  THEN [a EXCEPT !.error = UploadFirst]
  ELSE [a EXCEPT !.isLoading = TRUE, !.error = NoError,
                 !.selectedStyle = style]

\* handleStyleSelect up to its await (or its early return)
handleStyleSelectStart(a, style) ==
  IF a.originalImage = Null
  THEN [a EXCEPT !.error = UploadFirst]
  ELSE [a EXCEPT !.isLoading = TRUE, !.error = NoError,
                 !.styledImage = Null, !.selectedStyle = style]

\* the applyHairstyle calls handleStyleSelect makes: none on the early
\* return, else one carrying the originalImage and the style of its closure
handleStyleSelectCalls(a, style) ==
  IF a.originalImage = Null THEN EmptyBag
  ELSE SetToBag({[image |-> a.originalImage, style |-> style]})

\* handleStyleSelect without its finally block on the success path
handleStyleSelectResolve_NoFinally(a, data) ==
  [a EXCEPT !.styledImage = data]

\* handleStyleSelect after applyHairstyle resolved: try body, then finally
handleStyleSelectResolve(a, data) ==
  [a EXCEPT !.styledImage = data, !.isLoading = FALSE]

\* handleStyleSelect whose catch only logs
handleStyleSelectReject_Swallows(a, message) ==
  [a EXCEPT !.isLoading = FALSE]

\* handleStyleSelect after applyHairstyle rejected: catch, then finally
handleStyleSelectReject(a, message) ==
  [a EXCEPT !.error = GenerationFailed(message), !.isLoading = FALSE]

\* handleDiscard without its setError(null)
handleDiscard_KeepsError(a) ==
  [a EXCEPT !.originalImage = Null, !.styledImage = Null,
            !.selectedStyle = Null]

\* handleDiscard reporting an error when there is nothing to discard
handleDiscard_Complains(a) ==
  [a EXCEPT !.originalImage = Null, !.styledImage = Null,
            !.selectedStyle = Null,
            !.error = IF a.originalImage # Null THEN NoError
                      ELSE "Nothing to discard."]

handleDiscard(a) ==
  [a EXCEPT !.originalImage = Null, !.styledImage = Null,
            !.selectedStyle = Null, !.error = NoError]

\* ------------------------------------------------------------- geminiService
\* what generateContent may do: answer with an image part, answer without
\* one, or throw (network / service failure)
Responses ==
  [kind : {"image"}, data : Payloads] \cup
  [kind : {"noImage", "throw"}, data : {Null}]

\* applyHairstyle's settlement for a response.  The throw of the else branch
\* happens inside the try block, so the catch replaces its message too.
applyHairstyle(response) ==
  LET inner == IF response.kind = "image"
               THEN [ok |-> TRUE, value |-> response.data, message |-> NoError]
               ELSE IF response.kind = "noImage"
               THEN [ok |-> FALSE, value |-> Null, message |-> NoImageMessage]
               ELSE [ok |-> FALSE, value |-> Null, message |-> "network"]
  IN IF inner.ok THEN inner
     ELSE [ok |-> FALSE, value |-> Null, message |-> ServiceMessage]

\* ------------------------------------------------------------- CameraCapture.tsx
NoCamera == [id |-> Null, stream |-> Null, error |-> NoError]

\* `stream` as the effect's closure binds it.  The effect has the dependency
\* list [], so it runs once, after the first render, and cleanup reads the
\* `stream` of that render: the initial value of useState.
EffectStream == Null

\* cleanup's `if (stream) stream.getTracks().forEach(track => track.stop())`
cleanup(tracks) ==
  IF EffectStream # Null THEN tracks \ {EffectStream} ELSE tracks

\* `active` of the effect run by instance id: true until its cleanup ran
active(id) == showCamera /\ camera.id = id

\* React unmounts the CameraCapture instance: the effect's destructor runs
\* and the instance's state is dropped
UnmountCamera ==
  /\ showCamera' = FALSE
  /\ camera' = NoCamera
  /\ liveTracks' = cleanup(liveTracks)

\* setShowCamera(false), or the uploader going away, with or without a
\* capture view mounted
CloseCameraIfShown ==
  IF showCamera THEN UnmountCamera
  ELSE UNCHANGED <<showCamera, camera, liveTracks>>

\* ------------------------------------------------------------- ImageUploader
\* what became of the capture view a pending toBlob callback was issued by:
\* still shown ("live"), closed by handleCapture on a callback of its own
\* ("captured"), closed by handleCapture on a callback of an earlier view
\* ("displaced"), closed by Cancel ("cancelled"), or unmounted together with
\* its ImageUploader ("orphan").  The callback itself is the same closure in
\* all five.
BlobKinds == {"live", "captured", "displaced", "cancelled", "orphan"}

NoBlobs == [kind \in BlobKinds |-> 0]

PendingBlobs ==
  blobs.live + blobs.captured + blobs.displaced + blobs.cancelled + blobs.orphan

\* the capture view goes away: its pending callbacks are no longer "live"
MoveLive(b, to) == [b EXCEPT ![to] = @ + b.live, !.live = 0]

\* App renders ImageUploader only while originalImage is null
UploaderMounted == app.originalImage = Null

\* onImageUpload(file): a fresh File enters handleImageUpload
StartUpload ==
  /\ nextFile < MaxFiles
  /\ nextFile' = nextFile + 1
  /\ fileReads' = fileReads \cup {nextFile + 1}
  /\ app' = handleImageUploadStart(app)
  /\ UNCHANGED <<transforms, objectUrls>>

\* handleFileChange: the file input and the Select File button are
\* disabled={isLoading}; the capture view is a full-window modal overlay
handleFileChange ==
  /\ UploaderMounted /\ ~app.isLoading /\ ~showCamera
  /\ StartUpload
  /\ UNCHANGED <<camVars, viewVars>>

\* onDrop: the drop zone has no isLoading guard
onDrop ==
  /\ UploaderMounted /\ ~showCamera
  /\ StartUpload
  /\ UNCHANGED <<camVars, viewVars>>

\* Use Camera button (disabled={isLoading}) mounts CameraCapture, whose
\* effect calls getCameraStream
OpenCamera ==
  /\ UploaderMounted /\ ~app.isLoading /\ ~showCamera
  /\ opens < MaxOpens
  /\ \E supported \in BOOLEAN :
       /\ camera' = [id |-> opens + 1, stream |-> Null,
                     error |-> IF supported THEN NoError ELSE CameraNotSupported]
       /\ gumPending' = IF supported THEN gumPending \cup {opens + 1} ELSE gumPending
  /\ opens' = opens + 1
  /\ showCamera' = TRUE
  /\ UNCHANGED <<appVars, liveTracks, blobs, viewVars>>

\* Cancel button: onClose = () => setShowCamera(false)
onClose ==
  /\ showCamera
  /\ UnmountCamera
  /\ blobs' = MoveLive(blobs, "cancelled")
  /\ UNCHANGED <<appVars, opens, gumPending, viewVars>>

\* getUserMedia resolves for the request of instance id
getCameraStreamResolve(id) ==
  /\ id \in gumPending
  /\ gumPending' = gumPending \ {id}
  /\ liveTracks' = liveTracks \cup {id}
  /\ camera' = IF active(id) /\ camera.error = NoError
               THEN [camera EXCEPT !.stream = id]
               ELSE camera
  /\ UNCHANGED <<appVars, showCamera, opens, blobs, viewVars>>

\* getCameraStream whose catch only logs
getCameraStreamReject_Silent(id) ==
  /\ id \in gumPending
  /\ gumPending' = gumPending \ {id}
  /\ UNCHANGED <<appVars, showCamera, camera, opens, liveTracks, blobs, viewVars>>

\* getUserMedia rejects for the request of instance id
getCameraStreamReject(id) ==
  /\ id \in gumPending
  /\ gumPending' = gumPending \ {id}
  /\ camera' = IF showCamera /\ camera.id = id
               THEN [camera EXCEPT !.error = CameraDenied]
               ELSE camera
  /\ UNCHANGED <<appVars, showCamera, opens, liveTracks, blobs, viewVars>>

\* Take Picture with neither the disabled attribute nor the early return
TakePicture_Unguarded ==
  /\ showCamera
  /\ PendingBlobs < MaxBlobs
  /\ blobs' = [blobs EXCEPT !.live = @ + 1]
  /\ UNCHANGED <<appVars, showCamera, camera, opens, gumPending, liveTracks, viewVars>>

\* Take Picture button (disabled={!stream || !!error}): CameraCapture's
\* handleCapture draws the frame and calls canvas.toBlob
TakePicture ==
  /\ showCamera /\ camera.stream # Null /\ camera.error = NoError
  /\ PendingBlobs < MaxBlobs
  /\ blobs' = [blobs EXCEPT !.live = @ + 1]
  /\ UNCHANGED <<appVars, showCamera, camera, opens, gumPending, liveTracks, viewVars>>

\* the toBlob callback with a blob: onCapture(file), that is ImageUploader's
\* handleCapture: onImageUpload(file); setShowCamera(false).  The setter acts
\* only on an uploader that is still mounted.
toBlobCallback(of) ==
  /\ blobs[of] > 0
  /\ StartUpload
  /\ IF of = "orphan"
     THEN /\ blobs' = [blobs EXCEPT ![of] = @ - 1]
          /\ UNCHANGED <<showCamera, camera, liveTracks>>
     ELSE /\ blobs' = MoveLive([blobs EXCEPT ![of] = @ - 1],
                                IF of = "live" THEN "captured" ELSE "displaced")
          /\ CloseCameraIfShown
  /\ UNCHANGED <<opens, gumPending, viewVars>>

\* the toBlob callback with null: `if (blob)` fails
toBlobCallbackNull(of) ==
  /\ blobs[of] > 0
  /\ blobs' = [blobs EXCEPT ![of] = @ - 1]
  /\ UNCHANGED <<appVars, showCamera, camera, opens, gumPending, liveTracks, viewVars>>

\* ------------------------------------------------------------- continuations
\* fileToBase64 resolves: reader.onload, then URL.createObjectURL(file) for
\* the new originalImage.  When originalImage becomes non-null App stops
\* rendering ImageUploader, which unmounts any capture view.
fileToBase64Resolve(file) ==
  /\ file \in fileReads
  /\ fileReads' = fileReads \ {file}
  /\ app' = handleImageUploadResolve(app, file)
  /\ objectUrls' = createObjectURL(objectUrls, file)
  /\ IF UploaderMounted
     THEN /\ CloseCameraIfShown
          /\ blobs' = [NoBlobs EXCEPT !.orphan = PendingBlobs]
     ELSE UNCHANGED <<showCamera, camera, liveTracks, blobs>>
  /\ UNCHANGED <<nextFile, transforms, opens, gumPending, viewVars>>

\* fileToBase64 rejects: reader.onerror
fileToBase64Reject(file) ==
  /\ file \in fileReads
  /\ fileReads' = fileReads \ {file}
  /\ app' = handleImageUploadReject(app)
  /\ UNCHANGED <<nextFile, transforms, objectUrls, camVars, viewVars>>

\* a preset button of PresetStyles (rendered while originalImage is set,
\* disabled={isLoading}) calls handleStyleSelect(style)
onStyleSelect(style) ==
  /\ ~UploaderMounted /\ ~app.isLoading
  /\ BagCardinality(transforms) < MaxInFlight
  /\ app' = handleStyleSelectStart(app, style)
  /\ transforms' = transforms (+) handleStyleSelectCalls(app, style)
  /\ UNCHANGED <<nextFile, fileReads, objectUrls, camVars, viewVars>>

\* applyHairstyle resolves for the pending call r
applyHairstyleResolve(r, response) ==
  /\ BagIn(r, transforms)
  /\ applyHairstyle(response).ok
  /\ transforms' = transforms (-) SetToBag({r})
  /\ app' = handleStyleSelectResolve(app, applyHairstyle(response).value)
  /\ UNCHANGED <<nextFile, fileReads, objectUrls, camVars, viewVars>>

\* applyHairstyle rejects for the pending call r
applyHairstyleReject(r, response) ==
  /\ BagIn(r, transforms)
  /\ ~applyHairstyle(response).ok
  /\ transforms' = transforms (-) SetToBag({r})
  /\ app' = handleStyleSelectReject(app, applyHairstyle(response).message)
  /\ UNCHANGED <<nextFile, fileReads, objectUrls, camVars, viewVars>>

\* Discard button of ActionButtons (rendered while originalImage is set,
\* never disabled)
onDiscard ==
  /\ ~UploaderMounted
  /\ app' = handleDiscard(app)
  /\ UNCHANGED <<nextFile, fileReads, transforms, objectUrls, camVars, viewVars>>

\* ------------------------------------------------------------- StyledPreview.tsx
NoAlert == "none"
ShareUnsupported == "Web Share API is not available on your browser."
ShareFailed == "Could not share the image."
DownloadName == "styled-hair.png"

\* App renders StyledPreview only while originalImage is set
PreviewMounted == app.originalImage # Null

\* the overlay Download button is rendered only with a styledImageUrl, and
\* the one of ActionButtons is disabled={!isStyled}
DownloadEnabled == PreviewMounted /\ app.styledImage # Null

\* the same for the two Share buttons
ShareEnabled == PreviewMounted /\ app.styledImage # Null

\* handleDownload without its early return
handleDownload_NoGuard(styledImageUrl, saves) ==
  saves \cup {[download |-> DownloadName, href |-> styledImageUrl]}

\* handleDownload: the file saves made once it ran
handleDownload(styledImageUrl, saves) ==
  IF styledImageUrl = Null THEN saves
  ELSE saves \cup {[download |-> DownloadName, href |-> styledImageUrl]}

\* handleShare that alerts only when there is nothing to share
handleShare_IgnoresPlatform(styledImageUrl, available) ==
  IF styledImageUrl = Null
  THEN [alert |-> ShareUnsupported, pending |-> EmptyBag]
  ELSE [alert |-> NoAlert,
        pending |-> SetToBag({[stage |-> "fetch", url |-> styledImageUrl]})]

\* handleShare up to its first await: the alert it raises and the call it
\* leaves suspended at fetch(styledImageUrl)
handleShare(styledImageUrl, available) ==
  IF styledImageUrl = Null \/ ~available
  THEN [alert |-> ShareUnsupported, pending |-> EmptyBag]
  ELSE [alert |-> NoAlert,
        pending |-> SetToBag({[stage |-> "fetch", url |-> styledImageUrl]})]

\* a handleShare call suspended at fetch, at response.blob() or at
\* navigator.share, with the styledImageUrl its closure holds
ShareCalls == [stage : {"fetch", "blob", "share"}, url : Payloads]

\* the argument of navigator.share: one File made of the fetched blob
ShareData(url) ==
  [title |-> "My New Hairstyle!",
   text |-> "Check out my new look generated with StyleMy.Hair!",
   files |-> <<[name |-> DownloadName, content |-> url]>>]

\* window.alert blocks the page until it is dismissed, so every handler and
\* continuation waits for alert = NoAlert
onDownload ==
  /\ alert = NoAlert
  /\ DownloadEnabled
  /\ saved' = handleDownload(app.styledImage, saved)
  /\ UNCHANGED <<appVars, camVars, canShare, alert, sharing, shared,
                 sliderVars, captureVars, codecVars>>

onShare ==
  /\ alert = NoAlert
  /\ ShareEnabled
  /\ canShare => BagCardinality(sharing) < MaxSharing
  /\ alert' = handleShare(app.styledImage, canShare).alert
  /\ sharing' = sharing (+) handleShare(app.styledImage, canShare).pending
  /\ UNCHANGED <<appVars, camVars, canShare, saved, shared,
                 sliderVars, captureVars, codecVars>>

\* handleShare whose catch reports through the session's error banner
shareCatch_SetsError(s) ==
  /\ alert = NoAlert
  /\ BagIn(s, sharing)
  /\ sharing' = sharing (-) SetToBag({s})
  /\ alert' = ShareFailed
  /\ app' = [app EXCEPT !.error = ShareFailed]
  /\ UNCHANGED <<nextFile, fileReads, transforms, objectUrls, camVars,
                 canShare, saved, shared, sliderVars, captureVars, codecVars>>

\* the promise handleShare awaits rejects (fetch or blob fails, the share
\* is cancelled or refused): catch
shareCatch(s) ==
  /\ alert = NoAlert
  /\ BagIn(s, sharing)
  /\ sharing' = sharing (-) SetToBag({s})
  /\ alert' = ShareFailed
  /\ UNCHANGED <<appVars, camVars, canShare, saved, shared,
                 sliderVars, captureVars, codecVars>>

\* the promise handleShare awaits resolves: fetch, then response.blob(),
\* then navigator.share
shareContinue(s) ==
  /\ alert = NoAlert
  /\ BagIn(s, sharing)
  /\ IF s.stage = "fetch"
     THEN /\ sharing' = (sharing (-) SetToBag({s}))
                          (+) SetToBag({[s EXCEPT !.stage = "blob"]})
          /\ UNCHANGED shared
     ELSE IF s.stage = "blob"
     THEN /\ sharing' = (sharing (-) SetToBag({s}))
                          (+) SetToBag({[s EXCEPT !.stage = "share"]})
          /\ shared' = shared \cup {ShareData(s.url)}
     ELSE /\ sharing' = sharing (-) SetToBag({s})
          /\ UNCHANGED shared
  /\ UNCHANGED <<appVars, camVars, canShare, saved, alert,
                 sliderVars, captureVars, codecVars>>

\* the user closes the alert box
dismissAlert ==
  /\ alert # NoAlert
  /\ alert' = NoAlert
  /\ UNCHANGED <<appVars, camVars, canShare, saved, sharing, shared,
                 sliderVars, captureVars, codecVars>>

\* ------------------------------------------------------------- BeforeAfterSlider
\* sliderPos is a JavaScript number; here it is the exact fraction num/den
Ratio(n, d) == [num |-> n, den |-> d]
Whole(n) == Ratio(n, 1)
RatLeq(p, q) == p.num * q.den <= q.num * p.den
RatEq(p, q) == p.num * q.den = q.num * p.den
RatMinus(p, q) == Ratio(p.num * q.den - q.num * p.den, p.den * q.den)

Max(a, b) == IF a >= b THEN a ELSE b
Min(a, b) == IF a <= b THEN a ELSE b

\* useState(50)
InitialSliderPos == 50

\* getBoundingClientRect() of the container, which has a positive width
\* whenever a pointer can be over it
Rects == [left : 0..MaxLeft, width : 1..MaxWidth]

\* clientX of a pointer or touch event: left of, inside and right of any rect
ClientXs == (-1)..(MaxLeft + MaxWidth + 1)

\* handleMove without the test of isDragging.current
handleMove_IgnoresFlag(dragging, pos, r, clientX) ==
  LET x == Max(0, Min(clientX - r.left, r.width))
  IN Ratio(x * 100, r.width)

\* handleMove without the clamp to the bounding box
handleMove_NoClamp(dragging, pos, r, clientX) ==
  IF ~dragging THEN pos
  ELSE Ratio((clientX - r.left) * 100, r.width)

\* handleMove measuring from the right edge
handleMove_FromRight(dragging, pos, r, clientX) ==
  IF ~dragging THEN pos
  ELSE LET x == Max(0, Min(clientX - r.left, r.width))
       IN Ratio((r.width - x) * 100, r.width)

\* handleMove(clientX): the value sliderPos has afterwards
handleMove(dragging, pos, r, clientX) ==
  IF ~dragging THEN pos
  ELSE LET x == Max(0, Min(clientX - r.left, r.width))
       IN Ratio(x * 100, r.width)

\* handlePointerDown: isDragging.current afterwards
handlePointerDown(dragging) == TRUE

\* handlePointerUp: isDragging.current afterwards
handlePointerUp(dragging) == FALSE

\* a window pointerup listener that leaves the flag alone
handleMouseUpGlobal_Keeps(dragging) == dragging

\* handleMouseUpGlobal, the window pointerup listener
handleMouseUpGlobal(dragging) == FALSE

\* clip-path with the inset taken from the left of the scale
clipPath_Inverted(pos) ==
  [top |-> Whole(0), right |-> pos, bottom |-> Whole(0), left |-> Whole(0)]

\* clipPath: `inset(0 ${100 - sliderPos}% 0 0)`, the offsets inward from the
\* top, right, bottom and left edges
clipPath(pos) ==
  [top |-> Whole(0), right |-> RatMinus(Whole(100), pos),
   bottom |-> Whole(0), left |-> Whole(0)]

\* the horizontal extent, in percent of the container's width from its left
\* edge, that an inset leaves visible
VisibleExtent(inset) ==
  [from |-> inset.left, to |-> RatMinus(Whole(100), inset.right)]

\* what the component renders, bottom layer first: the after image over the
\* whole container, the before image inside its clip, the handle at left
render(pos) ==
  << [layer |-> "after", extent |-> [from |-> Whole(0), to |-> Whole(100)]],
     [layer |-> "before", extent |-> VisibleExtent(clipPath(pos))],
     [layer |-> "handle", extent |-> [from |-> pos, to |-> pos]] >>

\* the pointer goes down on the handle: onPointerDown / onTouchStart
onPointerDown ==
  /\ ~pressed
  /\ pressed' = TRUE
  /\ isDragging' = handlePointerDown(isDragging)
  /\ UNCHANGED <<appVars, camVars, previewVars, sliderPos, rect, captureVars, codecVars>>

onTouchStart ==
  /\ ~pressed
  /\ pressed' = TRUE
  /\ isDragging' = handlePointerDown(isDragging)
  /\ UNCHANGED <<appVars, camVars, previewVars, sliderPos, rect, captureVars, codecVars>>

\* the pointer goes down off the handle: no handler is bound
pressElsewhere ==
  /\ ~pressed
  /\ pressed' = TRUE
  /\ UNCHANGED <<appVars, camVars, previewVars, sliderPos, isDragging, rect,
                 captureVars, codecVars>>

\* onPointerMove on the container
onPointerMove(clientX) ==
  /\ sliderPos' = handleMove(isDragging, sliderPos, rect, clientX)
  /\ UNCHANGED <<appVars, camVars, previewVars, isDragging, pressed, rect,
                 captureVars, codecVars>>

\* onTouchMove on the container: e.touches[0].clientX
onTouchMove(clientX) ==
  /\ pressed
  /\ sliderPos' = handleMove(isDragging, sliderPos, rect, clientX)
  /\ UNCHANGED <<appVars, camVars, previewVars, isDragging, pressed, rect,
                 captureVars, codecVars>>

\* pointerup over the container: onPointerUp, then the window listener as
\* the event bubbles
onPointerUp ==
  /\ pressed
  /\ pressed' = FALSE
  /\ isDragging' = handleMouseUpGlobal(handlePointerUp(isDragging))
  /\ UNCHANGED <<appVars, camVars, previewVars, sliderPos, rect, captureVars, codecVars>>

\* pointerup anywhere else in the window: the window listener only
onPointerUpOutside ==
  /\ pressed
  /\ pressed' = FALSE
  /\ isDragging' = handleMouseUpGlobal(isDragging)
  /\ UNCHANGED <<appVars, camVars, previewVars, sliderPos, rect, captureVars, codecVars>>

\* touchend is dispatched to the element the touch began on and bubbles to
\* the container: onTouchEnd
onTouchEnd ==
  /\ pressed
  /\ pressed' = FALSE
  /\ isDragging' = handlePointerUp(isDragging)
  /\ UNCHANGED <<appVars, camVars, previewVars, sliderPos, rect, captureVars, codecVars>>

\* ------------------------------------------------------------- CameraCapture.handleCapture
Colors == {"dark", "light"}

\* a video frame or a canvas bitmap: pixels[<<column, row>>], column 0 at
\* the left
Bitmaps(w, h) ==
  [width : {w}, height : {h}, pixels : [(0..(w - 1)) \X (0..(h - 1)) -> Colors]]

\* the frames the video element may show: videoWidth by videoHeight pixels
Frames ==
  UNION {Bitmaps(w, h) : w \in 1..MaxVideoWidth, h \in 1..MaxVideoHeight}

NoBitmap == [width |-> 0, height |-> 0, pixels |-> <<>>]

\* the horizontal part of the context's transform: x' = a * x + e
IdentityTransform == [a |-> 1, e |-> 0]

\* context.translate(tx, 0): the current transform times a translation
translate(m, tx) == [a |-> m.a, e |-> m.a * tx + m.e]

\* context.scale(sx, 1): the current transform times a scaling
scale(m, sx) == [a |-> m.a * sx, e |-> m.e]

apply(m, x) == m.a * x + m.e

\* context.drawImage(video, 0, 0, width, height) under transform m: source
\* pixel <<c, r>> covers [c, c+1] x [r, r+1] in user space (the destination
\* size is the source size) and lands on the device pixel whose left edge
\* is the smaller transformed bound; pixels that nothing lands on stay
\* transparent
drawImage(m, video) ==
  [width |-> video.width, height |-> video.height,
   pixels |->
     [d \in (0..(video.width - 1)) \X (0..(video.height - 1)) |->
        LET from == {c \in 0..(video.width - 1) :
                       Min(apply(m, c), apply(m, c + 1)) = d[1]}
        IN IF from = {} THEN "transparent"
           ELSE video.pixels[<<CHOOSE c \in from : TRUE, d[2]>>]]]

\* the drawing without the flip
draw_Unflipped(video) ==
  drawImage(IdentityTransform, video)

\* lines 57-65 of handleCapture: a canvas of videoWidth by videoHeight,
\* translate(canvas.width, 0), scale(-1, 1), drawImage
draw(video) ==
  drawImage(scale(translate(IdentityTransform, video.width), -1), video)

\* CameraCapture.handleCapture with the bitmap it draws: Take Picture
handleCapture ==
  /\ showCamera /\ camera.stream # Null /\ camera.error = NoError
  /\ PendingBlobs < MaxBlobs
  /\ canvas' = draw(frame)
  /\ blobs' = [blobs EXCEPT !.live = @ + 1]
  /\ UNCHANGED <<appVars, showCamera, camera, opens, gumPending, liveTracks,
                 previewVars, sliderVars, frame, codecVars>>

\* ------------------------------------------------------------- fileToBase64
\* a string is the sequence of its tokens: the delimiters ":", ";" and ","
\* are tokens of their own, so that split and match see every one of them
TypeTokens == {"image", "/"}
DataTokens == {"A", "/"}

SeqsUpTo(S, n) == UNION {[1..k -> S] : k \in 0..n}

\* the files handed to readAsDataURL: their type (empty when the platform
\* knows none) and their content in base64
Blobs == [type : SeqsUpTo(TypeTokens, MaxTypeLen),
          data : SeqsUpTo(DataTokens, MaxDataLen)]

\* what a platform writes for a file of unknown type: no media type, or
\* the generic one
UnknownTypes == {<<>>, <<"application/octet-stream">>}

\* reader.result of readAsDataURL: data:[<media type>];base64,<data>
readAsDataURL(blob, unknown) ==
  <<"data", ":">> \o (IF blob.type = <<>> THEN unknown ELSE blob.type)
    \o <<";", "base64", ",">> \o blob.data

Undefined == <<"undefined">>
DefaultMimeType == <<"image/jpeg">>

\* the first position of token c in s at or after position from; 0 if none
IndexOf(s, c, from) ==
  IF \E i \in from..Len(s) : s[i] = c
  THEN CHOOSE i \in from..Len(s) :
         s[i] = c /\ \A j \in from..(i - 1) : s[j] # c
  ELSE 0

\* the first two pieces of result.split(',')
split(result) ==
  LET c1 == IndexOf(result, ",", 1)
      c2 == IF c1 = 0 THEN 0 ELSE IndexOf(result, ",", c1 + 1)
  IN [header |-> IF c1 = 0 THEN result ELSE SubSeq(result, 1, c1 - 1),
      data |-> IF c1 = 0 THEN Undefined
               ELSE SubSeq(result, c1 + 1,
                           IF c2 = 0 THEN Len(result) ELSE c2 - 1)]

\* header.match(/:(.*?);/)?.[1]: the text between the first ":" and the
\* first ";" after it
match(header) ==
  LET colon == IndexOf(header, ":", 1)
      semi == IF colon = 0 THEN 0 ELSE IndexOf(header, ";", colon + 1)
  IN IF semi = 0 THEN Undefined ELSE SubSeq(header, colon + 1, semi - 1)

\* reader.onload without the `|| 'image/jpeg'`
onload_NoDefault(result) ==
  [base64 |-> split(result).data,
   mimeType |-> match(split(result).header)]

\* reader.onload: the value fileToBase64 resolves with.  undefined and the
\* empty string are the falsy values `||` replaces.
onload(result) ==
  [base64 |-> split(result).data,
   mimeType |-> IF match(split(result).header) \in {Undefined, <<>>}
                THEN DefaultMimeType
                ELSE match(split(result).header)]

NotSettled == [state |-> "pending"]

\* the read succeeds: resolve({ base64: data, mimeType })
readerOnload ==
  /\ encoded = NotSettled
  /\ encoded' = [state |-> "resolved",
                 value |-> onload(readAsDataURL(reading.blob, reading.unknown))]
  /\ UNCHANGED <<appVars, camVars, previewVars, sliderVars, captureVars,
                 reading>>

\* the read fails: reader.onerror = error => reject(error)
readerOnerror ==
  /\ encoded = NotSettled
  /\ encoded' = [state |-> "rejected"]
  /\ UNCHANGED <<appVars, camVars, previewVars, sliderVars, captureVars,
                 reading>>

\* ------------------------------------------------------------- specification
\* StyledPreview as it is when nothing was saved or shared yet
PreviewIdle ==
  /\ saved = {}
  /\ alert = NoAlert
  /\ sharing = EmptyBag
  /\ shared = {}

\* BeforeAfterSlider as useState and useRef initialise it
SliderIdle ==
  /\ sliderPos = Whole(InitialSliderPos)
  /\ isDragging = FALSE
  /\ pressed = FALSE

\* no fileToBase64 call is followed
CodecIdle ==
  /\ reading = [blob |-> [type |-> <<>>, data |-> <<>>], unknown |-> <<>>]
  /\ encoded = NotSettled

\* CameraCapture before any frame was drawn
CaptureIdle ==
  /\ frame = NoBitmap
  /\ canvas = NoBitmap

Init ==
  /\ app = InitialApp
  /\ nextFile = 0
  /\ fileReads = {}
  /\ transforms = EmptyBag
  /\ showCamera = FALSE
  /\ camera = NoCamera
  /\ opens = 0
  /\ gumPending = {}
  /\ liveTracks = {}
  /\ blobs = NoBlobs
  /\ objectUrls = {}
  /\ canShare = TRUE
  /\ PreviewIdle
  /\ SliderIdle
  /\ rect = [left |-> 0, width |-> 1]
  /\ CaptureIdle
  /\ CodecIdle

Requests == [image : Files, style : Styles]

Next ==
  \/ handleFileChange
  \/ onDrop
  \/ OpenCamera
  \/ onClose
  \/ \E id \in StreamIds : getCameraStreamResolve(id)
  \/ \E id \in StreamIds : getCameraStreamReject(id)
  \/ TakePicture
  \/ \E of \in BlobKinds : toBlobCallback(of)
  \/ \E of \in BlobKinds : toBlobCallbackNull(of)
  \/ \E file \in Files : fileToBase64Resolve(file)
  \/ \E file \in Files : fileToBase64Reject(file)
  \/ \E style \in Styles : onStyleSelect(style)
  \/ \E r \in Requests, response \in Responses : applyHairstyleResolve(r, response)
  \/ \E r \in Requests, response \in Responses : applyHairstyleReject(r, response)
  \/ onDiscard

Spec == Init /\ [][Next]_vars

\* ------------------------------------------------------------- the result view
\* the session right after its first acquisition: file 1 was picked and read
Uploaded ==
  /\ app = handleImageUploadResolve(handleImageUploadStart(InitialApp), 1)
  /\ nextFile = 1
  /\ fileReads = {}
  /\ transforms = EmptyBag
  /\ objectUrls = createObjectURL({}, 1)

\* no capture view was opened
CameraIdle ==
  /\ showCamera = FALSE
  /\ camera = NoCamera
  /\ opens = 0
  /\ gumPending = {}
  /\ liveTracks = {}
  /\ blobs = NoBlobs

PreviewInit ==
  /\ Uploaded
  /\ CameraIdle
  /\ canShare \in BOOLEAN
  /\ PreviewIdle
  /\ SliderIdle
  /\ rect = [left |-> 0, width |-> 1]
  /\ CaptureIdle
  /\ CodecIdle

\* StyledPreview from the first acquisition to Discard: styles are selected
\* and transforms settle while results are downloaded and shared
PreviewNext ==
  \/ onDownload
  \/ onShare
  \/ \E s \in ShareCalls : shareContinue(s)
  \/ \E s \in ShareCalls : shareCatch(s)
  \/ dismissAlert
  \/ \E style \in Styles : alert = NoAlert /\ onStyleSelect(style)
  \/ \E r \in Requests, response \in Responses :
       alert = NoAlert /\ applyHairstyleResolve(r, response)
  \/ \E r \in Requests, response \in Responses :
       alert = NoAlert /\ applyHairstyleReject(r, response)
  \/ alert = NoAlert /\ onDiscard

PreviewSpec == PreviewInit /\ [][PreviewNext]_vars

\* ------------------------------------------------------------- the slider
\* the session with a result shown, which is when StyledPreview renders
\* BeforeAfterSlider: style 1 was applied to file 1
Styled ==
  /\ app = handleStyleSelectResolve(
             handleStyleSelectStart(
               handleImageUploadResolve(handleImageUploadStart(InitialApp), 1),
               1),
             1)
  /\ nextFile = 1
  /\ fileReads = {}
  /\ transforms = EmptyBag
  /\ objectUrls = createObjectURL({}, 1)

SliderInit ==
  /\ Styled
  /\ CameraIdle
  /\ canShare = TRUE
  /\ PreviewIdle
  /\ SliderIdle
  /\ rect \in Rects
  /\ CaptureIdle
  /\ CodecIdle

SliderNext ==
  \/ onPointerDown
  \/ onTouchStart
  \/ pressElsewhere
  \/ \E clientX \in ClientXs : onPointerMove(clientX)
  \/ \E clientX \in ClientXs : onTouchMove(clientX)
  \/ onPointerUp
  \/ onPointerUpOutside
  \/ onTouchEnd

SliderSpec == SliderInit /\ [][SliderNext]_vars

\* ------------------------------------------------------------- the capture
\* the capture view of the empty session with its stream granted and the
\* video showing some frame
Live ==
  /\ showCamera = TRUE
  /\ camera = [id |-> 1, stream |-> 1, error |-> NoError]
  /\ opens = 1
  /\ gumPending = {}
  /\ liveTracks = {1}
  /\ blobs = NoBlobs

CaptureInit ==
  /\ app = InitialApp
  /\ nextFile = 0
  /\ fileReads = {}
  /\ transforms = EmptyBag
  /\ objectUrls = {}
  /\ Live
  /\ canShare = TRUE
  /\ PreviewIdle
  /\ SliderIdle
  /\ rect = [left |-> 0, width |-> 1]
  /\ frame \in Frames
  /\ canvas = NoBitmap
  /\ CodecIdle

CaptureNext ==
  \/ handleCapture
  \/ \E of \in BlobKinds : toBlobCallbackNull(of)

CaptureSpec == CaptureInit /\ [][CaptureNext]_vars

\* ------------------------------------------------------------- the codec
\* the session while handleImageUpload awaits fileToBase64 for file 1
Reading ==
  /\ app = handleImageUploadStart(InitialApp)
  /\ nextFile = 1
  /\ fileReads = {1}
  /\ transforms = EmptyBag
  /\ objectUrls = {}

CodecInit ==
  /\ Reading
  /\ CameraIdle
  /\ canShare = TRUE
  /\ PreviewIdle
  /\ SliderIdle
  /\ rect = [left |-> 0, width |-> 1]
  /\ CaptureIdle
  /\ reading \in [blob : Blobs, unknown : UnknownTypes]
  /\ encoded = NotSettled

CodecNext ==
  \/ readerOnload
  \/ readerOnerror

CodecSpec == CodecInit /\ [][CodecNext]_vars

\* ------------------------------------------------------------- properties
Outstanding == BagCardinality(transforms)

\* C1: a transform that resolves after originalImage has been replaced by a
\* newer acquisition leaves styledImage as it was.
C1_StaleCompletionSuppressed ==
  [][\A r \in BagToSet(transforms), response \in Responses :
       (applyHairstyleResolve(r, response)
          /\ app.originalImage # Null /\ app.originalImage # r.image)
       => app'.styledImage = app.styledImage]_vars

\* C2: in every reachable state styledImage is present only if
\* originalImage is present.
C2_StyledOnlyWithSource ==
  app.styledImage # Null => app.originalImage # Null

\* C3: at most one applyHairstyle call is outstanding at any time.
C3_AtMostOneInFlight ==
  Outstanding <= 1

\* C4: whenever the capture view stops being shown, the stream it acquired
\* has its tracks stopped.
C4_StreamStoppedOnClose ==
  [][(showCamera /\ ~showCamera') => camera.stream \notin liveTracks']_vars

\* C5: a stream granted to a capture view that was closed while the request
\* was pending is stopped, not left open.
C5_LateGrantReleased ==
  [][\A id \in StreamIds :
       (getCameraStreamResolve(id) /\ ~active(id)) => id \notin liveTracks']_vars

\* C6: at most one unstopped camera stream exists at any time.
C6_AtMostOneLiveStream ==
  Cardinality(liveTracks) <= 1

\* C7: immediately after Discard, originalImage, styledImage, selectedStyle
\* and error are all absent.
C7_DiscardClearsFour ==
  [][onDiscard =>
       /\ app'.originalImage = Null
       /\ app'.styledImage = Null
       /\ app'.selectedStyle = Null
       /\ app'.error = NoError]_vars

\* a state right after a Discard issued while a transform was outstanding
C7_Witness ==
  /\ app.originalImage = Null /\ app.styledImage = Null
  /\ app.selectedStyle = Null /\ app.error = NoError
  /\ app.isLoading /\ Outstanding > 0 /\ fileReads = {}

\* C8: Discard yields the initial empty state in every field, isLoading
\* included.
C8_DiscardYieldsInitial ==
  [][onDiscard => app' = InitialApp]_vars

\* C9: Discard is idempotent: applying handleDiscard to the state a Discard
\* produced changes nothing.
C9_DiscardIdempotent ==
  [][onDiscard => handleDiscard(app') = app']_vars

\* a state right after a Discard issued from a state holding a source, a
\* result and nothing outstanding
C9_Witness ==
  /\ app = handleDiscard(app) /\ app = InitialApp
  /\ nextFile > 0 /\ fileReads = {} /\ Outstanding = 0

\* C10: a failing transform sets error and writes nothing to styledImage;
\* when it fails while its own loading state still stands, styledImage is
\* absent afterwards.
C10_FailureSetsErrorOnly ==
  [][\A r \in BagToSet(transforms), response \in Responses :
       applyHairstyleReject(r, response) =>
         /\ app'.error # NoError
         /\ app'.styledImage = app.styledImage
         /\ (app.isLoading => app'.styledImage = Null)]_vars

\* upload, select a style, the transform fails
C10_Witness ==
  /\ app.error = GenerationFailed(ServiceMessage)
  /\ app.originalImage # Null /\ app.selectedStyle # Null
  /\ app.styledImage = Null /\ ~app.isLoading
  /\ Outstanding = 0 /\ fileReads = {}

\* C11: a response without an image surfaces as an error that preserves the
\* capability's cause text and differs from the error of a network failure.
C11_BlockedDistinguished ==
  [][\A r \in BagToSet(transforms), response \in Responses :
       (applyHairstyleReject(r, response) /\ response.kind = "noImage") =>
         /\ app'.error = GenerationFailed(NoImageMessage)
         /\ app'.error #
              GenerationFailed(applyHairstyle([kind |-> "throw", data |-> Null]).message)]_vars

\* a preset button can be pressed: PresetStyles is rendered and enabled
SelectionEnabled == ~UploaderMounted /\ ~app.isLoading

C13_SuccessStoresResult ==
  [][\A r \in BagToSet(transforms), response \in Responses :
       (/\ applyHairstyleResolve(r, response)
        /\ Outstanding = 1 /\ fileReads = {}
        /\ app.isLoading /\ app.originalImage = r.image)
       => app' = [originalImage |-> r.image,
                  styledImage |-> response.data,
                  isLoading |-> FALSE,
                  error |-> NoError,
                  selectedStyle |-> r.style]]_vars

\* upload, select a style, the transform succeeds
C13_Witness ==
  /\ app.originalImage # Null /\ app.styledImage \in Payloads
  /\ app.selectedStyle \in Styles /\ app.error = NoError /\ ~app.isLoading
  /\ Outstanding = 0 /\ fileReads = {} /\ nextFile = 1

\* C14: whenever an acquisition completes successfully and installs a new
\* originalImage, styledImage and selectedStyle are absent afterwards.
C14_ReplacementClearsResult ==
  [][\A file \in fileReads :
       fileToBase64Resolve(file) =>
         app'.styledImage = Null /\ app'.selectedStyle = Null]_vars

\* some entry point can hand a file to handleImageUpload
UploadCanStart ==
  \/ UploaderMounted /\ ~showCamera
  \/ PendingBlobs > 0

\* C15: an acquisition whose read fails sets error and leaves originalImage
\* and styledImage as they were when the attempt started.
C15_FailedReplacementAllOrNothing ==
  UploadCanStart =>
    LET after == handleImageUploadReject(handleImageUploadStart(app))
    IN /\ after.error # NoError
       /\ after.originalImage = app.originalImage
       /\ after.styledImage = app.styledImage

\* C16: the completion of an acquisition started earlier than the one whose
\* image is installed does not overwrite originalImage.
C16_SupersededAcquisitionIgnored ==
  [][\A file \in fileReads :
       (fileToBase64Resolve(file)
          /\ app.originalImage # Null /\ file < app.originalImage)
       => app'.originalImage = app.originalImage]_vars

\* C17: while a file read is pending no second acquisition is started.
C17_OneAcquisitionAtATime ==
  Cardinality(fileReads) <= 1

\* ------------------------------------------------------------- fairness
\* every pending applyHairstyle call settles
TransformSettles ==
  \E r \in Requests, response \in Responses :
    applyHairstyleResolve(r, response) \/ applyHairstyleReject(r, response)

\* every pending FileReader read settles
ReadSettles ==
  \E file \in Files : fileToBase64Resolve(file) \/ fileToBase64Reject(file)

\* the promises of the external collaborators eventually settle; user
\* events are under no obligation to happen
FairSpec == Spec /\ WF_vars(TransformSettles) /\ WF_vars(ReadSettles)

\* C18: a transform is started only when none is outstanding, and every
\* state with isLoading true is eventually followed by one with isLoading
\* false (the preset buttons no longer disabled).
C18_ResolvesBeforeNextStarts ==
  /\ [][\A style \in Styles : onStyleSelect(style) => Outstanding = 0]_vars
  /\ (app.isLoading ~> ~app.isLoading)

\* C19: when getUserMedia is refused the capture view goes from Requesting
\* to Failed with the camera-unavailable message and stays open; App's state
\* and the acquisitions are untouched by opening the camera and by the
\* refusal; while an error is shown capture is disabled and cancel is
\* available.
C19_DeniedCameraFails ==
  /\ [][/\ \A id \in gumPending :
             (getCameraStreamReject(id) /\ active(id)) =>
               /\ camera.stream = Null /\ camera.error = NoError
               /\ camera'.error = CameraDenied /\ camera'.stream = Null
               /\ showCamera'
               /\ app' = app /\ nextFile' = nextFile
               /\ fileReads' = fileReads /\ blobs' = blobs
        /\ OpenCamera =>
             /\ app' = app /\ nextFile' = nextFile /\ fileReads' = fileReads
             /\ camera'.error \in {NoError, CameraNotSupported}]_vars
  /\ []((showCamera /\ camera.error # NoError) =>
          (~ENABLED TakePicture /\ ENABLED onClose))

\* the camera was opened from the empty session and access was refused
C19_Witness ==
  /\ showCamera /\ camera.error = CameraDenied /\ camera.stream = Null
  /\ app = InitialApp /\ nextFile = 0 /\ blobs.live = 0

\* C20: after the user cancels the capture view, no acquisition is started
\* on behalf of that camera session.
C20_NoImageAfterCancel ==
  [][~toBlobCallback("cancelled")]_vars

\* C21: a capture closes the capture view, and no capture view starts a
\* second acquisition: once a callback of a view has started one, no further
\* toBlob callback issued by that same view starts another.
C21_SingleCapturePerOpening ==
  [][/\ toBlobCallback("live") => ~showCamera'
     /\ ~toBlobCallback("captured")]_vars

\* C22: after Discard no un-revoked object URL remains, and after an
\* acquisition installs a source the only un-revoked object URL is the one
\* of that source.
C22_UrlRevokedWithSource ==
  [][/\ onDiscard => objectUrls' = {}
     /\ \A file \in fileReads :
          fileToBase64Resolve(file) => objectUrls' \subseteq {file}]_vars

\* C23: sliderPos stays within [0, 100] whatever presses, moves and
\* releases happen, at positions inside or outside the bounding box.
C23_RevealWithinRange ==
  RatLeq(Whole(0), sliderPos) /\ RatLeq(sliderPos, Whole(100))

\* the handle was dragged to a position left of a container that does not
\* start at the window's edge
C23_Witness ==
  /\ isDragging /\ pressed /\ rect.left > 0
  /\ RatEq(sliderPos, Whole(0))

\* C24: while dragging, a move at clientX sets sliderPos to handleMove's
\* value for pointer and touch moves alike; over positions within the
\* bounding box that value does not decrease as clientX grows, is 0 at the
\* left edge and 100 at the right edge.
C24_MonotoneInPosition ==
  /\ [](/\ \A x1, x2 \in ClientXs :
             (rect.left <= x1 /\ x1 <= x2 /\ x2 <= rect.left + rect.width) =>
               RatLeq(handleMove(TRUE, sliderPos, rect, x1),
                      handleMove(TRUE, sliderPos, rect, x2))
        /\ RatEq(handleMove(TRUE, sliderPos, rect, rect.left), Whole(0))
        /\ RatEq(handleMove(TRUE, sliderPos, rect, rect.left + rect.width),
                 Whole(100)))
  /\ [][\A clientX \in ClientXs :
          ((onPointerMove(clientX) \/ onTouchMove(clientX)) /\ isDragging) =>
            sliderPos' = handleMove(TRUE, sliderPos, rect, clientX)]_vars

\* the handle is being dragged and stands strictly inside the container,
\* away from its initial position
C24_Witness ==
  /\ isDragging /\ pressed
  /\ ~RatLeq(sliderPos, Whole(0)) /\ ~RatLeq(Whole(100), sliderPos)
  /\ ~RatEq(sliderPos, Whole(InitialSliderPos))

\* C25: a press on the handle sets the dragging flag; whenever the pointer
\* is up the flag is clear, wherever the release happened; and a move made
\* while the flag is clear leaves sliderPos as it was.
C25_NoStuckDrag ==
  /\ [](~pressed => ~isDragging)
  /\ [][/\ (onPointerDown \/ onTouchStart) => isDragging'
        /\ \A clientX \in ClientXs :
             ((onPointerMove(clientX) \/ onTouchMove(clientX)) /\ ~isDragging)
               => sliderPos' = sliderPos]_vars

\* the handle was dragged away from its initial position and released
C25_Witness ==
  /\ ~pressed /\ ~isDragging
  /\ ~RatEq(sliderPos, Whole(InitialSliderPos))

\* C26 as claimed: the before image is visible exactly over [0, 100 - p]
\* percent of the width from the left edge.
C26_BeforeOverComplement ==
  LET before == render(sliderPos)[2].extent
  IN /\ RatEq(before.from, Whole(0))
     /\ RatEq(before.to, RatMinus(Whole(100), sliderPos))

\* C26 as amended: the after image is the bottom layer and spans the whole
\* width; the before image is visible exactly over [0, p] percent of the
\* width from the left edge, up to the handle, which stands at p percent.
C26_BeforeUpToDivider ==
  LET layers == render(sliderPos)
  IN /\ layers[1].layer = "after"
     /\ RatEq(layers[1].extent.from, Whole(0))
     /\ RatEq(layers[1].extent.to, Whole(100))
     /\ layers[2].layer = "before"
     /\ RatEq(layers[2].extent.from, Whole(0))
     /\ RatEq(layers[2].extent.to, sliderPos)
     /\ layers[3].layer = "handle"
     /\ RatEq(layers[3].extent.from, sliderPos)

\* the divider was dragged into the left half of the container
C26_Witness ==
  /\ isDragging
  /\ ~RatLeq(sliderPos, Whole(0)) /\ ~RatLeq(Whole(InitialSliderPos), sliderPos)

\* C27: without a styledImage no Download button can be pressed and
\* handleDownload saves nothing; a download that does happen saves the
\* current styledImage.
C27_DownloadNeedsResult ==
  /\ [](app.styledImage = Null =>
          /\ ~ENABLED onDownload
          /\ handleDownload(app.styledImage, saved) = saved)
  /\ [][onDownload =>
          /\ app.styledImage # Null
          /\ saved' = saved \cup {[download |-> DownloadName,
                                   href |-> app.styledImage]}]_vars

\* a result was downloaded, then a new style was selected: the view is
\* mounted without a result
C27_Witness ==
  /\ PreviewMounted /\ app.styledImage = Null /\ alert = NoAlert
  /\ saved # {}

\* C28: pressing Share raises the not-available notice exactly when
\* navigator.share is missing, and then no share is started or made; no
\* other step raises that notice; with navigator.share present the call
\* goes on with the styledImage of the moment, and every navigator.share
\* made carries exactly one file, holding the payload the call started with.
C28_ShareNoticeIffUnsupported ==
  /\ [](\A data \in shared : Len(data.files) = 1)
  /\ [](~canShare => (sharing = EmptyBag /\ shared = {}))
  /\ [][/\ onShare =>
             /\ (alert' = ShareUnsupported) <=> ~canShare
             /\ ~canShare => (sharing' = sharing /\ shared' = shared)
             /\ canShare =>
                  /\ alert' = NoAlert
                  /\ sharing' = sharing (+)
                       SetToBag({[stage |-> "fetch", url |-> app.styledImage]})
        /\ (alert' = ShareUnsupported /\ alert # ShareUnsupported) => ~canShare
        /\ \A s \in BagToSet(sharing) :
             (shareContinue(s) /\ s.stage = "blob") =>
               shared' = shared \cup {ShareData(s.url)}
        /\ shared' # shared =>
             \E s \in BagToSet(sharing) :
               s.stage = "blob" /\ shared' = shared \cup {ShareData(s.url)}]_vars

\* Share was pressed on a platform without navigator.share
C28_Witness ==
  /\ ~canShare /\ alert = ShareUnsupported
  /\ app.styledImage # Null /\ sharing = EmptyBag /\ shared = {}

\* C29: no step of a download or of a share (its start, each of its
\* continuations, its failure, the dismissal of its notice) changes any
\* field of App's state.
C29_ExportLeavesSession ==
  [][/\ (onDownload \/ onShare \/ dismissAlert) => app' = app
     /\ \A s \in BagToSet(sharing) :
          (shareContinue(s) \/ shareCatch(s)) => app' = app]_vars

\* a result was downloaded and a share of it has just failed
C29_Witness ==
  /\ alert = ShareFailed /\ saved # {}
  /\ app.styledImage # Null /\ app.error = NoError /\ ~app.isLoading

\* C30: the canvas handleCapture draws has the frame's width and height,
\* and its pixel at column x of any row is the frame's pixel at column
\* width - 1 - x of that row.
C30_CaptureMirrored ==
  [][handleCapture =>
       /\ canvas'.width = frame.width
       /\ canvas'.height = frame.height
       /\ \A x \in 0..(frame.width - 1), y \in 0..(frame.height - 1) :
            canvas'.pixels[<<x, y>>] =
              frame.pixels[<<frame.width - 1 - x, y>>]]_vars

\* a frame whose left and right columns differ was captured
C30_Witness ==
  /\ canvas.width > 1 /\ canvas.width = frame.width
  /\ frame.pixels[<<0, 0>>] # frame.pixels[<<frame.width - 1, 0>>]
  /\ blobs.live > 0

\* C31: when the read succeeds fileToBase64 resolves with the media type
\* the read data names, or image/jpeg when it names none, and with the
\* payload that follows the header; when the read fails it rejects.
C31_EncodeDetectsType ==
  /\ [](encoded.state = "resolved" =>
          LET named == IF reading.blob.type = <<>> THEN reading.unknown
                       ELSE reading.blob.type
          IN /\ encoded.value.mimeType =
                  (IF named = <<>> THEN DefaultMimeType ELSE named)
             /\ encoded.value.base64 = reading.blob.data)
  /\ [][/\ readerOnerror => encoded'.state = "rejected"
        /\ readerOnload => encoded'.state = "resolved"]_vars

\* a file of unknown type, with content, was read on a platform that names
\* no media type for it
C31_Witness ==
  /\ encoded.state = "resolved"
  /\ reading.blob.type = <<>> /\ reading.unknown = <<>>
  /\ reading.blob.data # <<>>
  /\ encoded.value.mimeType = DefaultMimeType

\* C32: wherever originalImage is absent, handleStyleSelect makes no
\* applyHairstyle call and changes nothing but error, which it sets to the
\* upload-first message.
C32_SelectWithoutSource ==
  app.originalImage = Null =>
    \A style \in Styles :
      /\ handleStyleSelectCalls(app, style) = EmptyBag
      /\ handleStyleSelectStart(app, style) = [app EXCEPT !.error = UploadFirst]
      /\ handleStyleSelectStart(app, style).error # NoError

\* the source was discarded while a transform was pending: nothing is left
\* to select a style for, and the loading flag still stands
C32_Witness ==
  /\ app.originalImage = Null /\ app.isLoading /\ Outstanding > 0
  /\ \A style \in Styles :
       handleStyleSelectStart(app, style) =
         [InitialApp EXCEPT !.isLoading = TRUE, !.error = UploadFirst]

\* C33: while the capture view is Requesting or Failed (no stored stream,
\* or an error shown) Take Picture does nothing: no toBlob is issued, no
\* acquisition starts and the camera state stays as it is; every capture
\* that is issued is issued from Live and leaves the camera state alone.
C33_CaptureOnlyFromLive ==
  /\ []((showCamera /\ (camera.stream = Null \/ camera.error # NoError)) =>
          ~ENABLED TakePicture)
  /\ [][TakePicture =>
          /\ showCamera /\ camera.stream # Null /\ camera.error = NoError
          /\ camera.stream \in liveTracks
          /\ camera' = camera /\ showCamera' = showCamera
          /\ nextFile' = nextFile /\ app' = app]_vars

\* the capture view is Requesting: camera access is still being asked for
C33_Witness ==
  /\ showCamera /\ camera.stream = Null /\ camera.error = NoError
  /\ camera.id \in gumPending
  /\ PendingBlobs = 0 /\ nextFile = 0 /\ app = InitialApp

\* C34: whenever a file read or an applyHairstyle call is outstanding,
\* isLoading is true.
C34_LoadingFlagAccurate ==
  (fileReads # {} \/ Outstanding > 0) => app.isLoading

\* C35: the source and the result shown together belong together: a
\* transform that resolves while a source is present was issued for that
\* source, and a read that installs a source leaves no result of another
\* source standing.
C35_ResultFromCurrentSource ==
  [][/\ \A r \in BagToSet(transforms), response \in Responses :
          (applyHairstyleResolve(r, response) /\ app'.originalImage # Null)
            => r.image = app'.originalImage
     /\ \A file \in fileReads :
          (fileToBase64Resolve(file) /\ app.originalImage # file)
            => app'.styledImage = Null]_vars

\* C36: error and styledImage are never both present.
C36_ErrorExcludesResult ==
  ~(app.error # NoError /\ app.styledImage # Null)

\* C37: a pointer or touch move that arrives while isDragging is false,
\* before any press on the handle or after a release, leaves sliderPos as
\* it was.
C37_IdleMoveIgnored ==
  /\ [](~isDragging =>
          \A clientX \in ClientXs :
            handleMove(isDragging, sliderPos, rect, clientX) = sliderPos)
  /\ [][\A clientX \in ClientXs :
          ((onPointerMove(clientX) \/ onTouchMove(clientX)) /\ ~isDragging)
            => UNCHANGED sliderVars]_vars

\* the handle was dragged to the right edge and released, and the pointer
\* is down again away from the handle, where moves keep arriving
C37_Witness ==
  /\ ~isDragging /\ pressed
  /\ RatEq(sliderPos, Whole(100))

====
